---- MODULE Spec2Model ----
(***************************************************************************)
(* Model of the lexer of PlotSys: tokenize (src/parser/lexer.cpp) and the  *)
(* token type (Token.hpp).  A character is a one-character string, a       *)
(* std::string is a sequence of characters, and the cursor i keeps the     *)
(* 0-based value it has in the code.  One call of tokenize is one          *)
(* behaviour: Init chooses the argument, every action is one step of the   *)
(* scan, and the call ends in pc = "done" (return) or pc = "error"         *)
(* (std::runtime_error thrown).  Characters are ASCII.                     *)
(***************************************************************************)
EXTENDS Integers, Sequences, FiniteSets, TLC

VARIABLES expression, i, tokens, current, seenDot, seenExp, pc, error, returned

vars == <<expression, i, tokens, current, seenDot, seenExp, pc, error, returned>>

(***************************************************************************)
(* Bounds of the checked inputs.                                           *)
(***************************************************************************)
MaxLen == 3

MaxNumLen == 5

(***************************************************************************)
(* Character classes of <cctype> in the "C" locale.                        *)
(***************************************************************************)
WhiteSpace == {" ", "\t", "\n", "\f", "\r"}

Digits == {"0", "1", "2", "3", "4", "5", "6", "7", "8", "9"}

Letters ==
  {"a", "b", "c", "d", "e", "f", "g", "h", "i", "j", "k", "l", "m",
   "n", "o", "p", "q", "r", "s", "t", "u", "v", "w", "x", "y", "z",
   "A", "B", "C", "D", "E", "F", "G", "H", "I", "J", "K", "L", "M",
   "N", "O", "P", "Q", "R", "S", "T", "U", "V", "W", "X", "Y", "Z"}

\* Variant of isspace that does not know the blank.
isspaceNoBlank(c) == c \in WhiteSpace \ {" "}

isspace(c) == c \in WhiteSpace

isdigit(c) == c \in Digits

isalpha(c) == c \in Letters

(***************************************************************************)
(* The vocabulary tables of tokenize.                                      *)
(***************************************************************************)
functions ==
  { <<"s", "i", "n">>, <<"c", "o", "s">>, <<"t", "a", "n">>,
    <<"s", "e", "c">>, <<"c", "s", "c">>, <<"c", "o", "t">>,
    <<"a", "s", "i", "n">>, <<"a", "c", "o", "s">>, <<"a", "t", "a", "n">>,
    <<"a", "s", "e", "c">>, <<"a", "c", "s", "c">>, <<"a", "c", "o", "t">>,
    <<"l", "o", "g">>, <<"l", "n">>,
    <<"l", "o", "g", "_", "b", "a", "s", "e">>,
    <<"s", "q", "r", "t">>, <<"a", "b", "s">>,
    <<"n", "r", "o", "o", "t">>, <<"^">> }

constant == { <<"p", "i">>, <<"e">> }

variables == { <<"x">>, <<"y">>, <<"z">> }

\* Variant of OperatorChars without the caret.
OperatorCharsNoCaret == {"+", "-", "*", "/", "%", "="}

OperatorChars == {"+", "-", "*", "/", "^", "%", "="}

tokenType ==
  {"Number", "Operator", "LeftParen", "RightParen",
   "Function", "Constant", "Variable", "Invalid"}

token(t, v) == [type |-> t, value |-> v]

(***************************************************************************)
(* expression[k] with the 0-based index of the code, and emplace_back.     *)
(***************************************************************************)
At(str, k) == str[k + 1]

emplace_back(s, t, v) == [s EXCEPT !.tokens = Append(@, token(t, v))]

\* Variant of throw that hands the tokens scanned so far to the caller.
throwKeepingTokens(s, what) ==
  [s EXCEPT !.pc = "error", !.error = what, !.returned = s.tokens]

throw(s, what) == [s EXCEPT !.pc = "error", !.error = what]

(***************************************************************************)
(* The state of one call as a record, so that a step of the scan is an     *)
(* operator from state to state.                                           *)
(***************************************************************************)
State ==
  [expression |-> expression, i |-> i, tokens |-> tokens, current |-> current,
   seenDot |-> seenDot, seenExp |-> seenExp, pc |-> pc, error |-> error,
   returned |-> returned]

Become(s) ==
  /\ expression' = s.expression
  /\ i' = s.i
  /\ tokens' = s.tokens
  /\ current' = s.current
  /\ seenDot' = s.seenDot
  /\ seenExp' = s.seenExp
  /\ pc' = s.pc
  /\ error' = s.error
  /\ returned' = s.returned

Start(str) ==
  [expression |-> str, i |-> 0, tokens |-> <<>>, current |-> <<>>,
   seenDot |-> FALSE, seenExp |-> FALSE, pc |-> "main", error |-> "none",
   returned |-> <<>>]

\* Variant of Branch in which a sign before a digit starts a number.
BranchSignedNumber(s) ==
  IF ~(s.i < Len(s.expression)) THEN "return"
  ELSE LET character == At(s.expression, s.i) IN
    IF isspace(character) THEN "space"
    ELSE IF \/ isdigit(character)
            \/ /\ character \in {".", "+", "-"}
               /\ s.i + 1 < Len(s.expression)
               /\ isdigit(At(s.expression, s.i + 1))
      THEN "number"
    ELSE IF isalpha(character) THEN "identifier"
    ELSE IF character = "(" THEN "lparen"
    ELSE IF character = ")" THEN "rparen"
    ELSE IF character \in OperatorChars THEN "operator"
    ELSE "invalid"

\* Variant of Branch without the second disjunct of line 63: only a digit
\* starts a number.
BranchDigitOnly(s) ==
  IF ~(s.i < Len(s.expression)) THEN "return"
  ELSE LET character == At(s.expression, s.i) IN
    IF isspace(character) THEN "space"
    ELSE IF isdigit(character) THEN "number"
    ELSE IF isalpha(character) THEN "identifier"
    ELSE IF character = "(" THEN "lparen"
    ELSE IF character = ")" THEN "rparen"
    ELSE IF character \in OperatorChars THEN "operator"
    ELSE "invalid"

\* Variant of Branch without the lookahead of line 63: any '.' starts a number.
BranchDotAlways(s) ==
  IF ~(s.i < Len(s.expression)) THEN "return"
  ELSE LET character == At(s.expression, s.i) IN
    IF isspace(character) THEN "space"
    ELSE IF isdigit(character) \/ character = "." THEN "number"
    ELSE IF isalpha(character) THEN "identifier"
    ELSE IF character = "(" THEN "lparen"
    ELSE IF character = ")" THEN "rparen"
    ELSE IF character \in OperatorChars THEN "operator"
    ELSE "invalid"

(***************************************************************************)
(* Main loop, lines 53-181: which branch of the dispatch the character at  *)
(* the cursor takes.  "return" is the loop condition failing.              *)
(***************************************************************************)
Branch(s) ==
  IF ~(s.i < Len(s.expression)) THEN "return"
  ELSE LET character == At(s.expression, s.i) IN
    IF isspace(character) THEN "space"
    ELSE IF \/ isdigit(character)
            \/ /\ character = "."
               /\ s.i + 1 < Len(s.expression)
               /\ isdigit(At(s.expression, s.i + 1))
      THEN "number"
    ELSE IF isalpha(character) THEN "identifier"
    ELSE IF character = "(" THEN "lparen"
    ELSE IF character = ")" THEN "rparen"
    ELSE IF character \in OperatorChars THEN "operator"
    ELSE "invalid"

\* line 53 false, line 183: return tokens
ReturnTokens(s) == [s EXCEPT !.pc = "done", !.returned = s.tokens]

\* Variant of SkipSpace that lets the blank fall through to the last branch.
SkipSpaceAsToken(s) ==
  [s EXCEPT !.tokens = Append(@, token("Invalid", <<At(s.expression, s.i)>>)),
            !.i = @ + 1]

\* lines 57-60: continue, then the i++ of the for
SkipSpace(s) == [s EXCEPT !.i = @ + 1]

\* Variant of StartNumber without the i++ of line 66.
StartNumberNoAdvance(s) ==
  LET character == At(s.expression, s.i) IN
  [s EXCEPT !.current = <<character>>,
            !.seenDot = (character = "."),
            !.seenExp = FALSE,
            !.pc = "number"]

\* Variant of StartNumber that forgets a leading decimal point.
StartNumberNoDot(s) ==
  [s EXCEPT !.current = <<At(s.expression, s.i)>>,
            !.i = @ + 1,
            !.seenDot = FALSE,
            !.seenExp = FALSE,
            !.pc = "number"]

\* lines 65-69: the first character of a numeric literal
StartNumber(s) ==
  LET character == At(s.expression, s.i) IN
  [s EXCEPT !.current = <<character>>,
            !.i = @ + 1,
            !.seenDot = (character = "."),
            !.seenExp = FALSE,
            !.pc = "number"]

\* line 143: the first character of an alphabetic run
StartIdentifier(s) ==
  [s EXCEPT !.current = <<At(s.expression, s.i)>>, !.pc = "identifier"]

\* lines 166-168, then the i++ of the for
EmitLeftParen(s) == [emplace_back(s, "LeftParen", <<"(">>) EXCEPT !.i = @ + 1]

\* lines 169-171, then the i++ of the for
EmitRightParen(s) == [emplace_back(s, "RightParen", <<")">>) EXCEPT !.i = @ + 1]

\* lines 174-176, then the i++ of the for
EmitOperator(s) ==
  [emplace_back(s, "Operator", <<At(s.expression, s.i)>>) EXCEPT !.i = @ + 1]

\* lines 179-181, then the i++ of the for
EmitInvalid(s) ==
  [emplace_back(s, "Invalid", <<At(s.expression, s.i)>>) EXCEPT !.i = @ + 1]

MainLoop(s) ==
  CASE Branch(s) = "return" -> ReturnTokens(s)
    [] Branch(s) = "space" -> SkipSpace(s)
    [] Branch(s) = "number" -> StartNumber(s)
    [] Branch(s) = "identifier" -> StartIdentifier(s)
    [] Branch(s) = "lparen" -> EmitLeftParen(s)
    [] Branch(s) = "rparen" -> EmitRightParen(s)
    [] Branch(s) = "operator" -> EmitOperator(s)
    [] OTHER -> EmitInvalid(s)

(***************************************************************************)
(* Numeric sub-scanner, the while of lines 71-134: which branch the        *)
(* character at the cursor takes.  "exit" is the loop condition failing.   *)
(***************************************************************************)
NumberBranch(s) ==
  IF ~(s.i < Len(s.expression)) THEN "exit"
  ELSE LET next == At(s.expression, s.i) IN
    IF isdigit(next) THEN "digit"
    ELSE IF next = "." THEN "dot"
    ELSE IF next = "e" \/ next = "E" THEN "exp"
    ELSE "break"

\* lines 75-78 and 133
NumberDigit(s) ==
  [s EXCEPT !.current = Append(@, At(s.expression, s.i)), !.i = @ + 1]

\* Variant of NumberDot without the test of line 82.
NumberDotUnchecked(s) ==
  [s EXCEPT !.current = Append(@, "."), !.seenDot = TRUE, !.i = @ + 1]

\* lines 79-88 and 133
NumberDot(s) ==
  IF s.seenDot \/ s.seenExp
    THEN throw(s, "MultipleDecimalPoints")
    ELSE [s EXCEPT !.current = Append(@, "."), !.seenDot = TRUE, !.i = @ + 1]

\* lines 89-99: the exponent marker is appended and the cursor moves past it
NumberExp(s) ==
  IF s.seenExp
    THEN throw(s, "MultipleExponents")
    ELSE [s EXCEPT !.current = Append(@, At(s.expression, s.i)),
                   !.seenExp = TRUE,
                   !.i = @ + 1,
                   !.pc = "exponent"]

\* line 71 false, or the break of line 130: control reaches line 136
NumberEnd(s) == [s EXCEPT !.pc = "emit"]

NumberLoop(s) ==
  CASE NumberBranch(s) = "digit" -> NumberDigit(s)
    [] NumberBranch(s) = "dot" -> NumberDot(s)
    [] NumberBranch(s) = "exp" -> NumberExp(s)
    [] OTHER -> NumberEnd(s)

\* Variant of ExponentSign without the check of lines 110-113.
ExponentSignUnchecked(s) ==
  IF s.i >= Len(s.expression)
    THEN throw(s, "IncompleteExponent")
    ELSE LET signOrDigit == At(s.expression, s.i) IN
      IF signOrDigit = "+" \/ signOrDigit = "-"
        THEN [s EXCEPT !.current = Append(@, signOrDigit),
                       !.i = @ + 1,
                       !.pc = "expDigits"]
      ELSE IF ~isdigit(signOrDigit)
        THEN throw(s, "ExponentNotFollowedByDigit")
        ELSE [s EXCEPT !.pc = "expDigits"]

\* lines 100-118: what must follow the exponent marker
ExponentSign(s) ==
  IF s.i >= Len(s.expression)
    THEN throw(s, "IncompleteExponent")
    ELSE LET signOrDigit == At(s.expression, s.i) IN
      IF signOrDigit = "+" \/ signOrDigit = "-"
        THEN IF \/ s.i + 1 >= Len(s.expression)
                \/ ~isdigit(At(s.expression, s.i + 1))
               THEN throw([s EXCEPT !.current = Append(@, signOrDigit),
                                    !.i = @ + 1],
                          "ExponentNotFollowedByDigit")
               ELSE [s EXCEPT !.current = Append(@, signOrDigit),
                              !.i = @ + 1,
                              !.pc = "expDigits"]
      ELSE IF ~isdigit(signOrDigit)
        THEN throw(s, "ExponentNotFollowedByDigit")
        ELSE [s EXCEPT !.pc = "expDigits"]

\* Variant of ExponentDigits that reads one digit (an if for the while).
ExponentDigitsOnce(s) ==
  IF s.i < Len(s.expression) /\ isdigit(At(s.expression, s.i))
    THEN [s EXCEPT !.current = Append(@, At(s.expression, s.i)),
                   !.i = @ + 1,
                   !.pc = "emit"]
    ELSE [s EXCEPT !.pc = "emit"]

\* Variant of ExponentDigits without the break of line 126: the numeric loop
\* goes on after the exponent.
ExponentDigitsContinue(s) ==
  IF s.i < Len(s.expression) /\ isdigit(At(s.expression, s.i))
    THEN [s EXCEPT !.current = Append(@, At(s.expression, s.i)), !.i = @ + 1]
    ELSE [s EXCEPT !.pc = "number"]

\* lines 121-126: the digits of the exponent, then break
ExponentDigits(s) ==
  IF s.i < Len(s.expression) /\ isdigit(At(s.expression, s.i))
    THEN [s EXCEPT !.current = Append(@, At(s.expression, s.i)), !.i = @ + 1]
    ELSE [s EXCEPT !.pc = "emit"]

\* Variant of EmitNumber that backs up two positions.
EmitNumberBackTwo(s) ==
  [emplace_back(s, "Number", s.current) EXCEPT !.i = (s.i - 2) + 1,
                                               !.pc = "main"]

\* Variant of EmitNumber without the i-- of line 136.
EmitNumberNoPushback(s) ==
  [emplace_back(s, "Number", s.current) EXCEPT !.i = s.i + 1, !.pc = "main"]

\* lines 136-137: i--, the Number token, then the i++ of the for
EmitNumber(s) ==
  [emplace_back(s, "Number", s.current) EXCEPT !.i = (s.i - 1) + 1,
                                               !.pc = "main"]

(***************************************************************************)
(* Identifier sub-scanner, lines 145-163.                                  *)
(***************************************************************************)
\* Variant of Classify without the constant table.
ClassifyNoConstant(run) ==
  IF run \in functions THEN "Function"
  ELSE IF run \in variables /\ Len(run) = 1 THEN "Variable"
  ELSE "Invalid"

Classify(run) ==
  IF run \in functions THEN "Function"
  ELSE IF run \in constant THEN "Constant"
  ELSE IF run \in variables /\ Len(run) = 1 THEN "Variable"
  ELSE "Invalid"

\* Variant of IdentifierMore without the while: every letter is its own run.
IdentifierMoreNever(s) == FALSE

\* Variant of IdentifierMore that also absorbs the underscore.
IdentifierMoreUnderscore(s) ==
  /\ s.i + 1 < Len(s.expression)
  /\ isalpha(At(s.expression, s.i + 1)) \/ At(s.expression, s.i + 1) = "_"

\* lines 145-148: one more letter of the run
IdentifierMore(s) ==
  /\ s.i + 1 < Len(s.expression)
  /\ isalpha(At(s.expression, s.i + 1))

\* lines 145-163, then the i++ of the for
IdentifierLoop(s) ==
  IF IdentifierMore(s)
    THEN [s EXCEPT !.i = @ + 1,
                   !.current = Append(@, At(s.expression, s.i + 1))]
    ELSE [emplace_back(s, Classify(s.current), s.current)
            EXCEPT !.i = @ + 1, !.pc = "main"]

(***************************************************************************)
(* tokenize as a function: the steps above run to the return or the throw. *)
(***************************************************************************)
Step(s) ==
  CASE s.pc = "main" -> MainLoop(s)
    [] s.pc = "number" -> NumberLoop(s)
    [] s.pc = "exponent" -> ExponentSign(s)
    [] s.pc = "expDigits" -> ExponentDigits(s)
    [] s.pc = "emit" -> EmitNumber(s)
    [] s.pc = "identifier" -> IdentifierLoop(s)

RECURSIVE Run(_)
Run(s) == IF s.pc \in {"done", "error"} THEN s ELSE Run(Step(s))

tokenize(str) == Run(Start(str))

(***************************************************************************)
(* The indices at which the step taken from s reads expression: line 54    *)
(* and the lookahead of line 63, line 73, lines 105 and 110, line 121, and *)
(* lines 145 and 147, each under the test that guards it in the code.      *)
(***************************************************************************)
Reads(s) ==
  LET length == Len(s.expression) IN
  CASE s.pc = "main" ->
         IF ~(s.i < length) THEN {}
         ELSE LET character == At(s.expression, s.i) IN
              IF /\ ~isspace(character)
                 /\ ~isdigit(character)
                 /\ character = "."
                 /\ s.i + 1 < length
                THEN {s.i, s.i + 1}
                ELSE {s.i}
    [] s.pc = "number" -> IF s.i < length THEN {s.i} ELSE {}
    [] s.pc = "exponent" ->
         IF s.i >= length THEN {}
         ELSE IF At(s.expression, s.i) \in {"+", "-"} /\ ~(s.i + 1 >= length)
           THEN {s.i, s.i + 1}
           ELSE {s.i}
    [] s.pc = "expDigits" -> IF s.i < length THEN {s.i} ELSE {}
    [] s.pc = "identifier" -> IF s.i + 1 < length THEN {s.i + 1} ELSE {}
    [] OTHER -> {}

(***************************************************************************)
(* The arguments of the checked calls: every string of at most MaxLen      *)
(* characters of Chars, every string of at most MaxNumLen characters of    *)
(* NumChars, and the inputs the documentation names.                       *)
(***************************************************************************)
Chars ==
  {" ", "1", ".", "e", "E", "+", "-", "x", "p", "i", "l", "n", "(", ")", "_"}

NumChars == {" ", "1", ".", "e", "+"}

Strings(S, n) == UNION {[1..k -> S] : k \in 0..n}

Examples ==
  { <<"4", "2">>,
    <<"1", "2", ".">>,
    <<"3", ".", "2", "e", "-", "5">>,
    <<"0", ".", "5", "E", "+", "1", "0">>,
    <<"1", ".", "2", ".", "3">>,
    <<"x", "+", "1", ".", "2", ".", "3">>,
    <<".", "5", ".", "3">>,
    <<"2", "e">>,
    <<"1", "e", "5", "e", "3">>,
    <<"s", "i", "n", "(", "x", ")">>,
    <<"p", "i", "+", "2">>,
    <<"f", "o", "o", "1", "2", "3">>,
    <<"x", "y">>,
    <<"l", "o", "g", "_", "b", "a", "s", "e">>,
    <<"-", "5">>,
    <<"3", "-", "2">>,
    <<"1", "e", "5", ".", "3">>,
    <<"1", ".", "5", "e", "3", ".", "2">>,
    <<"x", "y", "z">>,
    <<"+", "-", "*", "/", "^", "%", "=">>,
    <<" ", "\t", "\n">>,
    <<"2", "*", "x", "^", "2", "\t", "/", "3", "%", "z", "=", "y">> }

Inputs == Strings(Chars, MaxLen) \cup Strings(NumChars, MaxNumLen) \cup Examples

Init ==
  \E str \in Inputs :
    /\ expression = str
    /\ i = Start(str).i
    /\ tokens = Start(str).tokens
    /\ current = Start(str).current
    /\ seenDot = Start(str).seenDot
    /\ seenExp = Start(str).seenExp
    /\ pc = Start(str).pc
    /\ error = Start(str).error
    /\ returned = Start(str).returned

Return == pc = "main" /\ Branch(State) = "return" /\ Become(MainLoop(State))

Space == pc = "main" /\ Branch(State) = "space" /\ Become(MainLoop(State))

NumberStart == pc = "main" /\ Branch(State) = "number" /\ Become(MainLoop(State))

IdentifierStart ==
  pc = "main" /\ Branch(State) = "identifier" /\ Become(MainLoop(State))

LeftParen == pc = "main" /\ Branch(State) = "lparen" /\ Become(MainLoop(State))

RightParen == pc = "main" /\ Branch(State) = "rparen" /\ Become(MainLoop(State))

Operator == pc = "main" /\ Branch(State) = "operator" /\ Become(MainLoop(State))

Invalid == pc = "main" /\ Branch(State) = "invalid" /\ Become(MainLoop(State))

Digit == pc = "number" /\ NumberBranch(State) = "digit" /\ Become(NumberLoop(State))

Dot == pc = "number" /\ NumberBranch(State) = "dot" /\ Become(NumberLoop(State))

Exp == pc = "number" /\ NumberBranch(State) = "exp" /\ Become(NumberLoop(State))

EndOfNumber ==
  /\ pc = "number"
  /\ NumberBranch(State) \in {"exit", "break"}
  /\ Become(NumberLoop(State))

Exponent == pc = "exponent" /\ Become(ExponentSign(State))

ExpDigits == pc = "expDigits" /\ Become(ExponentDigits(State))

Number == pc = "emit" /\ Become(EmitNumber(State))

Identifier == pc = "identifier" /\ Become(IdentifierLoop(State))

Next ==
  \/ Return
  \/ Space
  \/ NumberStart
  \/ IdentifierStart
  \/ LeftParen
  \/ RightParen
  \/ Operator
  \/ Invalid
  \/ Digit
  \/ Dot
  \/ Exp
  \/ EndOfNumber
  \/ Exponent
  \/ ExpDigits
  \/ Number
  \/ Identifier

Spec == Init /\ [][Next]_vars

TypeOK ==
  /\ i \in 0..Len(expression) + 1
  /\ pc \in {"main", "number", "exponent", "expDigits", "emit", "identifier",
             "done", "error"}
  /\ \A k \in 1..Len(tokens) : tokens[k].type \in tokenType
  /\ seenDot \in BOOLEAN /\ seenExp \in BOOLEAN

(***************************************************************************)
(* Vocabulary of the properties.                                           *)
(***************************************************************************)
StripSpace(str) == SelectSeq(str, LAMBDA c : c \notin WhiteSpace)

RECURSIVE ConcatValues(_)
ConcatValues(toks) ==
  IF toks = <<>> THEN <<>>
  ELSE Head(toks).value \o ConcatValues(Tail(toks))

RECURSIVE JoinWithSpaces(_)
JoinWithSpaces(toks) ==
  IF toks = <<>> THEN <<>>
  ELSE IF Len(toks) = 1 THEN toks[1].value
  ELSE toks[1].value \o <<" ">> \o JoinWithSpaces(Tail(toks))

CharsOf(str) == {str[k] : k \in 1..Len(str)}

Last(str) == str[Len(str)]

\* the input from the cursor on
Rest == SubSeq(expression, i + 1, Len(expression))

ErrorKinds ==
  {"MultipleDecimalPoints", "MultipleExponents", "IncompleteExponent",
   "ExponentNotFollowedByDigit"}

(***************************************************************************)
(* C1.  Round trip: when tokenize returns, the texts of the returned       *)
(* tokens, concatenated in order, are the input with every whitespace      *)
(* character removed.                                                      *)
(***************************************************************************)
RoundTrip == pc = "done" => ConcatValues(returned) = StripSpace(expression)

RoundTripWitness ==
  /\ pc = "done"
  /\ Len(returned) >= 3
  /\ " " \in CharsOf(expression)
  /\ \E k \in 1..Len(returned) : returned[k].type = "Number"

(***************************************************************************)
(* C2.  A malformed numeric literal aborts the whole call: after the throw *)
(* the caller has an error of one of the four kinds and no token, also     *)
(* when tokens had been scanned before it; a call that returns has raised  *)
(* no error, and x+1.2.3 never returns.                                    *)
(***************************************************************************)
AbortsWithoutTokens ==
  /\ pc = "error" => returned = <<>> /\ error \in ErrorKinds
  /\ pc = "done" => error = "none"
  /\ expression = <<"x", "+", "1", ".", "2", ".", "3">> => pc # "done"

AbortsWithoutTokensWitness ==
  /\ pc = "error"
  /\ Len(tokens) >= 2
  /\ expression = <<"x", "+", "1", ".", "2", ".", "3">>

(***************************************************************************)
(* C3.  An input without a digit never fails and never enters the numeric  *)
(* sub-scanner; when it returns, the scan has reached the end of the       *)
(* input, the stray symbols of the input are, in order, the texts of the   *)
(* one-character Invalid tokens, and every other Invalid token is an       *)
(* alphabetic run outside the three vocabularies.                          *)
(***************************************************************************)
IsStray(c) ==
  /\ c \notin WhiteSpace \cup Digits \cup Letters \cup OperatorChars
  /\ c \notin {"(", ")"}

AllLetters(str) == str # <<>> /\ \A k \in 1..Len(str) : str[k] \in Letters

InvalidSymbols(toks) ==
  SelectSeq(toks, LAMBDA t : t.type = "Invalid" /\ ~AllLetters(t.value))

FailsOnlyInNumbers ==
  CharsOf(expression) \cap Digits = {} =>
    /\ pc \in {"main", "identifier", "done"}
    /\ pc = "done" =>
         /\ i = Len(expression)
         /\ ConcatValues(InvalidSymbols(returned))
              = SelectSeq(expression, IsStray)
         /\ \A k \in 1..Len(returned) :
              returned[k].type = "Invalid" =>
                \/ Len(returned[k].value) = 1 /\ IsStray(returned[k].value[1])
                \/ /\ AllLetters(returned[k].value)
                   /\ returned[k].value \notin functions \cup constant \cup variables

FailsOnlyInNumbersWitness ==
  /\ pc = "done"
  /\ CharsOf(expression) \cap Digits = {}
  /\ \E k \in 1..Len(returned) : returned[k] = token("Invalid", <<".">>)
  /\ \E k \in 1..Len(returned) :
       returned[k].type = "Invalid" /\ Len(returned[k].value) >= 2

(***************************************************************************)
(* C4.  In the numeric loop, a '.' read when the literal accumulated so    *)
(* far already holds a '.' (a leading one included) raises the             *)
(* multiple-decimal-points error; otherwise the '.' is appended and        *)
(* seenDot is set.                                                         *)
(***************************************************************************)
SecondDotFails ==
  [][(pc = "number" /\ Rest # <<>> /\ Rest[1] = ".") =>
       IF "." \in CharsOf(current)
         THEN pc' = "error" /\ error' = "MultipleDecimalPoints"
         ELSE /\ current' = Append(current, ".")
              /\ seenDot'
              /\ pc' = "number"]_vars

SecondDotFailsWitness ==
  /\ pc = "error"
  /\ error = "MultipleDecimalPoints"
  /\ current[1] = "."

(***************************************************************************)
(* C5.  An e or E read in the numeric loop is taken as the exponent        *)
(* marker, and what follows it decides: end of input gives the             *)
(* incomplete-exponent error; a sign not followed by a digit, or a         *)
(* character that is neither sign nor digit, gives the                     *)
(* exponent-must-be-followed-by-a-digit error; otherwise the scan goes on  *)
(* to the digits of the exponent.                                          *)
(***************************************************************************)
ExponentNeedsDigit ==
  [][/\ (pc = "number" /\ Rest # <<>> /\ Rest[1] \in {"e", "E"}) =>
          pc' = "exponent" /\ current' = Append(current, Rest[1]) /\ i' = i + 1
     /\ pc = "exponent" =>
          IF Rest = <<>>
            THEN pc' = "error" /\ error' = "IncompleteExponent"
          ELSE IF Rest[1] \in {"+", "-"}
            THEN IF Len(Rest) >= 2 /\ Rest[2] \in Digits
                   THEN pc' = "expDigits" /\ current' = Append(current, Rest[1])
                   ELSE pc' = "error" /\ error' = "ExponentNotFollowedByDigit"
          ELSE IF Rest[1] \in Digits
            THEN pc' = "expDigits" /\ current' = current
            ELSE pc' = "error" /\ error' = "ExponentNotFollowedByDigit"]_vars

ExponentNeedsDigitWitness ==
  /\ pc = "error"
  /\ error = "ExponentNotFollowedByDigit"
  /\ Last(current) \in {"+", "-"}
  /\ Rest # <<>>

(***************************************************************************)
(* C6.  An input in which the digits of an exponent are directly followed  *)
(* by another e or E (a digit, e/E, an optional sign, digits, e/E) holds a *)
(* literal with two exponent markers, so tokenize does not return on it.   *)
(***************************************************************************)
HasSecondExponent(str) ==
  \E a \in 2..Len(str) : \E b \in (a + 2)..Len(str) :
    /\ str[a - 1] \in Digits
    /\ str[a] \in {"e", "E"}
    /\ str[b] \in {"e", "E"}
    /\ \E d \in (a + 1)..(b - 1) :
         /\ \A k \in d..(b - 1) : str[k] \in Digits
         /\ d = a + 1 \/ (d = a + 2 /\ str[a + 1] \in {"+", "-"})

MultipleExponentsFatal == HasSecondExponent(expression) => pc # "done"

(***************************************************************************)
(* C7.  Alphabetic runs.  AlphaRuns is the sequence of the maximal runs of *)
(* letters of a string, PriorityKind the classification in the fixed       *)
(* order function, constant, one-letter variable, invalid.                 *)
(***************************************************************************)
RECURSIVE LeadingLetters(_)
LeadingLetters(str) ==
  IF str = <<>> \/ Head(str) \notin Letters THEN 0
  ELSE 1 + LeadingLetters(Tail(str))

RECURSIVE AlphaRuns(_)
AlphaRuns(str) ==
  IF str = <<>> THEN <<>>
  ELSE IF Head(str) \notin Letters THEN AlphaRuns(Tail(str))
  ELSE LET n == LeadingLetters(str) IN
       <<SubSeq(str, 1, n)>> \o AlphaRuns(SubSeq(str, n + 1, Len(str)))

RECURSIVE RunsOfTokens(_)
RunsOfTokens(toks) ==
  IF toks = <<>> THEN <<>>
  ELSE AlphaRuns(Head(toks).value) \o RunsOfTokens(Tail(toks))

PriorityKind(run) ==
  CASE run \in functions -> "Function"
    [] run \notin functions /\ run \in constant -> "Constant"
    [] run \notin functions \cup constant /\ run \in variables /\ Len(run) = 1
         -> "Variable"
    [] OTHER -> "Invalid"

IdentifierTokens(toks) == SelectSeq(toks, LAMBDA t : AllLetters(t.value))

\* C7 as stated: every maximal run of letters of the input is one token of
\* the returned sequence, with the kind its priority gives and the run as text.
EveryRunOneToken ==
  pc = "done" =>
    IdentifierTokens(returned)
      = [k \in 1..Len(AlphaRuns(expression)) |->
           token(PriorityKind(AlphaRuns(expression)[k]), AlphaRuns(expression)[k])]

(***************************************************************************)
(* C7, amended.  Every maximal run of letters of the input is, in order,   *)
(* either the single e or E that is the exponent marker inside a Number    *)
(* token, or the whole text of exactly one token, whose kind is the one    *)
(* its priority gives; sin(x) and pi+2 give the tokens named.              *)
(***************************************************************************)
EveryScannedRunOneToken ==
  pc = "done" =>
    /\ RunsOfTokens(returned) = AlphaRuns(expression)
    /\ \A k \in 1..Len(returned) :
         IF returned[k].type = "Number"
           THEN AlphaRuns(returned[k].value) \in {<<>>, << <<"e">> >>, << <<"E">> >>}
         ELSE IF AllLetters(returned[k].value)
           THEN returned[k].type = PriorityKind(returned[k].value)
         ELSE AlphaRuns(returned[k].value) = <<>>
    /\ expression = <<"s", "i", "n", "(", "x", ")">> =>
         returned = << token("Function", <<"s", "i", "n">>),
                       token("LeftParen", <<"(">>),
                       token("Variable", <<"x">>),
                       token("RightParen", <<")">>) >>
    /\ expression = <<"p", "i", "+", "2">> =>
         returned = << token("Constant", <<"p", "i">>),
                       token("Operator", <<"+">>),
                       token("Number", <<"2">>) >>

EveryScannedRunOneTokenWitness ==
  /\ pc = "done"
  /\ \E k \in 1..Len(returned) : returned[k].type = "Constant"
  /\ \E k \in 1..Len(returned) :
       returned[k].type = "Number" /\ CharsOf(returned[k].value) \cap Letters # {}

(***************************************************************************)
(* C8.  An input that is one well-formed numeric literal (digits with at   *)
(* most one '.', at least one digit, then optionally e/E, an optional sign *)
(* and one or more digits) returns exactly one token, a Number whose text  *)
(* is the input.                                                           *)
(***************************************************************************)
IsMantissa(str) ==
  /\ str # <<>>
  /\ CharsOf(str) \subseteq Digits \cup {"."}
  /\ CharsOf(str) \cap Digits # {}
  /\ Cardinality({k \in 1..Len(str) : str[k] = "."}) <= 1

IsExponent(str) ==
  \/ str = <<>>
  \/ /\ Len(str) >= 2
     /\ str[1] \in {"e", "E"}
     /\ LET digits == IF str[2] \in {"+", "-"}
                        THEN SubSeq(str, 3, Len(str))
                        ELSE SubSeq(str, 2, Len(str))
        IN digits # <<>> /\ CharsOf(digits) \subseteq Digits

IsNumericLiteral(str) ==
  \E k \in 1..Len(str) :
    IsMantissa(SubSeq(str, 1, k)) /\ IsExponent(SubSeq(str, k + 1, Len(str)))

LiteralIsOneNumber ==
  IsNumericLiteral(expression) =>
    /\ pc # "error"
    /\ pc = "done" => returned = <<token("Number", expression)>>

LiteralIsOneNumberWitness ==
  /\ pc = "done"
  /\ IsNumericLiteral(expression)
  /\ "." \in CharsOf(expression)
  /\ CharsOf(expression) \cap {"+", "-"} # {}
  /\ returned = <<token("Number", expression)>>

(***************************************************************************)
(* C9.  Idempotence: when tokenize returns, tokenize of the returned       *)
(* texts joined with single blanks returns too, and returns the same       *)
(* tokens.                                                                 *)
(***************************************************************************)
Idempotent ==
  pc = "done" =>
    LET again == tokenize(JoinWithSpaces(returned)) IN
    again.pc = "done" /\ again.returned = returned

IdempotentWitness ==
  /\ pc = "done"
  /\ Len(returned) >= 2
  /\ CharsOf(expression) \cap WhiteSpace = {}
  /\ returned[1].type = "Number" /\ returned[2].type = "Number"

(***************************************************************************)
(* C10.  Whitespace produces no token: an input of whitespace only never   *)
(* leaves the main loop and returns the empty sequence, and neither a      *)
(* token nor the run being accumulated ever holds a whitespace character   *)
(* (a blank ends the number or the identifier before it).                  *)
(***************************************************************************)
WhitespaceNoToken ==
  /\ CharsOf(expression) \subseteq WhiteSpace =>
       /\ pc \in {"main", "done"}
       /\ tokens = <<>>
       /\ pc = "done" => returned = <<>>
  /\ \A k \in 1..Len(tokens) : CharsOf(tokens[k].value) \cap WhiteSpace = {}
  /\ CharsOf(current) \cap WhiteSpace = {}
  /\ pc = "done" =>
       /\ returned = tokens
       /\ Len(returned) <= Len(StripSpace(expression))

WhitespaceNoTokenWitness ==
  /\ pc = "done"
  /\ Len(expression) >= 3
  /\ expression[2] \in WhiteSpace
  /\ Len(returned) = 2
  /\ returned[1].type = "Number"
  /\ AllLetters(returned[2].value)

(***************************************************************************)
(* C11.  The runs of two or more letters of the input are, in order, the   *)
(* tokens with a text of two or more letters: one token per run, Invalid   *)
(* unless the run is a function or a constant name, also when every letter *)
(* is a variable (xy, xyz); and the text of a Variable token is x, y or z. *)
(***************************************************************************)
IsLong(str) == Len(str) >= 2

LongRunKind(run) ==
  IF run \in functions THEN "Function"
  ELSE IF run \in constant THEN "Constant"
  ELSE "Invalid"

LongRunsInvalid ==
  /\ \A k \in 1..Len(tokens) :
       tokens[k].type = "Variable" => tokens[k].value \in {<<"x">>, <<"y">>, <<"z">>}
  /\ pc = "done" =>
       LET runs == SelectSeq(AlphaRuns(expression), IsLong) IN
       /\ SelectSeq(returned, LAMBDA t : AllLetters(t.value) /\ IsLong(t.value))
            = [k \in 1..Len(runs) |-> token(LongRunKind(runs[k]), runs[k])]
       /\ expression = <<"x", "y">> => returned = <<token("Invalid", <<"x", "y">>)>>

LongRunsInvalidWitness ==
  /\ pc = "done"
  /\ returned = <<token("Invalid", <<"x", "y", "z">>)>>

(***************************************************************************)
(* C12.  The identifier sub-scanner absorbs letters only: the run being    *)
(* accumulated and the text of every Function, Constant and Variable token *)
(* are all letters, a token that holds a letter and is not a Number holds  *)
(* nothing else, no token is Function log_base, foo123 gives Invalid foo   *)
(* and Number 123, and log_base gives Function log, Invalid _, Invalid     *)
(* base.                                                                   *)
(***************************************************************************)
LettersOnly ==
  /\ pc = "identifier" => AllLetters(current)
  /\ \A k \in 1..Len(tokens) :
       /\ tokens[k].type \in {"Function", "Constant", "Variable"} =>
            AllLetters(tokens[k].value)
       /\ (tokens[k].type # "Number" /\ CharsOf(tokens[k].value) \cap Letters # {}) =>
            AllLetters(tokens[k].value)
       /\ tokens[k] # token("Function", <<"l", "o", "g", "_", "b", "a", "s", "e">>)
  /\ (pc = "done" /\ expression = <<"f", "o", "o", "1", "2", "3">>) =>
       returned = << token("Invalid", <<"f", "o", "o">>),
                     token("Number", <<"1", "2", "3">>) >>
  /\ (pc = "done" /\ expression = <<"l", "o", "g", "_", "b", "a", "s", "e">>) =>
       returned = << token("Function", <<"l", "o", "g">>),
                     token("Invalid", <<"_">>),
                     token("Invalid", <<"b", "a", "s", "e">>) >>

LettersOnlyWitness ==
  /\ pc = "done"
  /\ expression = <<"l", "o", "g", "_", "b", "a", "s", "e">>
  /\ Len(returned) = 3

IsOther(c) ==
  /\ c \notin WhiteSpace \cup Digits \cup Letters
  /\ c \notin {"(", ")", "+", "-", "*", "/", "^", "%", "=", "."}

DotNeedsDigit ==
  [][(pc = "main" /\ Rest # <<>>) =>
       /\ Rest[1] = "." =>
            IF Len(Rest) >= 2 /\ Rest[2] \in Digits
              THEN pc' = "number" /\ current' = <<".">> /\ tokens' = tokens
              ELSE /\ tokens' = Append(tokens, token("Invalid", <<".">>))
                   /\ pc' = "main"
                   /\ i' = i + 1
       /\ IsOther(Rest[1]) =>
            /\ tokens' = Append(tokens, token("Invalid", <<Rest[1]>>))
            /\ pc' = "main"
            /\ i' = i + 1
       /\ pc' = "number" =>
            \/ Rest[1] \in Digits
            \/ Rest[1] = "." /\ Len(Rest) >= 2 /\ Rest[2] \in Digits]_vars

DotNeedsDigitWitness ==
  /\ pc = "main"
  /\ Rest = <<>>
  /\ Len(tokens) >= 2
  /\ Last(tokens) = token("Invalid", <<".">>)
  /\ tokens[1] = token("Invalid", <<"_">>)

(***************************************************************************)
(* C15.  Each of + - * / ^ % = read at the top-level dispatch gives one    *)
(* Operator token whose text is that character, and the cursor moves one   *)
(* position; a token with text ^ is an Operator, never a Function.         *)
(***************************************************************************)
OperatorIsOperator ==
  [][/\ (/\ pc = "main"
         /\ Rest # <<>>
         /\ Rest[1] \in {"+", "-", "*", "/", "^", "%", "="}) =>
          /\ tokens' = Append(tokens, token("Operator", <<Rest[1]>>))
          /\ pc' = "main"
          /\ i' = i + 1
     /\ \A k \in 1..Len(tokens') :
          tokens'[k].value = <<"^">> => tokens'[k].type = "Operator"]_vars

OperatorIsOperatorWitness ==
  /\ pc = "done"
  /\ \A c \in {"+", "-", "*", "/", "^", "%", "="} :
       \E k \in 1..Len(returned) : returned[k] = token("Operator", <<c>>)

(***************************************************************************)
(* C16.  Termination and progress.  IterationStart is the cursor at which  *)
(* the iteration of the main loop in progress began: the accumulated run   *)
(* is the input from there to the cursor.  Measure is a variant of the     *)
(* scan: it is never negative, and every step lowers it.                   *)
(***************************************************************************)
IterationStart ==
  CASE pc = "main" -> i
    [] pc = "identifier" -> i + 1 - Len(current)
    [] OTHER -> i - Len(current)

RunIsInput ==
  /\ pc \in {"number", "exponent", "expDigits", "emit"} =>
       /\ Len(current) >= 1
       /\ IterationStart >= 0
       /\ current = SubSeq(expression, IterationStart + 1, i)
  /\ pc = "identifier" =>
       /\ Len(current) >= 1
       /\ IterationStart >= 0
       /\ current = SubSeq(expression, IterationStart + 1, i + 1)

Weight ==
  CASE pc \in {"number", "exponent"} -> 5
    [] pc = "expDigits" -> 4
    [] pc = "emit" -> 3
    [] pc = "main" -> 2
    [] pc = "identifier" -> 1
    [] OTHER -> 0

Measure == 6 * (Len(expression) - i) + Weight

\* C16 as stated: every step lowers the variant, an iteration of the main
\* loop ends with the cursor past where it began, and the cursor after the
\* i-- of line 136 is past the first character of the literal.
ProgressBackupPastStart ==
  [][/\ Measure >= 0 /\ Measure' >= 0 /\ Measure' < Measure
     /\ RunIsInput
     /\ pc' = "main" => i' > IterationStart
     /\ pc = "emit" => i - 1 > IterationStart]_vars

(***************************************************************************)
(* C16, amended.  tokenize terminates on every input: every step lowers    *)
(* the variant; an iteration of the main loop ends with the cursor         *)
(* strictly past where it began; the cursor after the i-- of line 136 is   *)
(* never before the first character of the literal (it is on it when the   *)
(* literal is one character long, and the i++ of the for moves it past).   *)
(***************************************************************************)
ProgressBackupNotBeforeStart ==
  [][/\ Measure >= 0 /\ Measure' >= 0 /\ Measure' < Measure
     /\ RunIsInput
     /\ pc' = "main" => i' > IterationStart
     /\ pc = "emit" => i - 1 >= IterationStart]_vars

ProgressBackupNotBeforeStartWitness ==
  /\ pc = "emit"
  /\ Len(current) = 1
  /\ i - 1 = IterationStart
  /\ Rest # <<>>

(***************************************************************************)
(* C17.  The text of every Number token is a mantissa (digits with at most *)
(* one '.' after the first digit, or a '.' followed by one or more digits) *)
(* optionally followed by e or E, an optional sign and one or more digits: *)
(* at most one '.', at most one marker, no '.' after the marker, nothing   *)
(* after the digits of the exponent.                                       *)
(***************************************************************************)
Positions(str, S) == {k \in 1..Len(str) : str[k] \in S}

MantissaForm(m) ==
  /\ m # <<>>
  /\ \/ /\ m[1] \in Digits
        /\ CharsOf(m) \subseteq Digits \cup {"."}
        /\ Cardinality(Positions(m, {"."})) <= 1
     \/ /\ m[1] = "."
        /\ Len(m) >= 2
        /\ \A k \in 2..Len(m) : m[k] \in Digits

ExponentForm(x) ==
  \/ x = <<>>
  \/ /\ x[1] \in {"e", "E"}
     /\ \E d \in 2..3 :
          /\ d <= Len(x)
          /\ d = 3 => x[2] \in {"+", "-"}
          /\ \A k \in d..Len(x) : x[k] \in Digits

NumberForm(str) ==
  /\ \E k \in 1..Len(str) :
       /\ MantissaForm(SubSeq(str, 1, k))
       /\ ExponentForm(SubSeq(str, k + 1, Len(str)))
  /\ Cardinality(Positions(str, {"."})) <= 1
  /\ Cardinality(Positions(str, {"e", "E"})) <= 1
  /\ \A d \in Positions(str, {"."}) : \A m \in Positions(str, {"e", "E"}) : d < m
  /\ Last(str) \in Digits \cup {"."}

NumbersWellFormed ==
  \A k \in 1..Len(tokens) :
    tokens[k].type = "Number" => NumberForm(tokens[k].value)

NumbersWellFormedWitness ==
  /\ pc = "done"
  /\ \E k \in 1..Len(returned) :
       /\ returned[k].type = "Number"
       /\ returned[k].value[1] = "."
       /\ Positions(returned[k].value, {"+", "-"}) # {}

(***************************************************************************)
(* C18.  A sign is part of a Number only directly after the exponent       *)
(* marker: in the literal being accumulated and in every Number token a    *)
(* + or - follows an e or E; every other token that holds a sign is the    *)
(* one-character Operator; -5 gives Operator - and Number 5, and 3-2 gives *)
(* Number 3, Operator - and Number 2.                                      *)
(***************************************************************************)
SignsFollowMarker(str) ==
  \A k \in Positions(str, {"+", "-"}) : k > 1 /\ str[k - 1] \in {"e", "E"}

SignOnlyInExponent ==
  /\ pc \in {"number", "exponent", "expDigits", "emit"} => SignsFollowMarker(current)
  /\ \A k \in 1..Len(tokens) :
       IF tokens[k].type = "Number"
         THEN SignsFollowMarker(tokens[k].value)
         ELSE Positions(tokens[k].value, {"+", "-"}) # {} =>
                /\ tokens[k].type = "Operator"
                /\ Len(tokens[k].value) = 1
  /\ (pc = "done" /\ expression = <<"-", "5">>) =>
       returned = <<token("Operator", <<"-">>), token("Number", <<"5">>)>>
  /\ (pc = "done" /\ expression = <<"3", "-", "2">>) =>
       returned = << token("Number", <<"3">>),
                     token("Operator", <<"-">>),
                     token("Number", <<"2">>) >>

SignOnlyInExponentWitness ==
  /\ pc = "done"
  /\ Len(returned) = 2
  /\ returned[1] = token("Operator", <<"+">>)
  /\ returned[2].type = "Number"
  /\ "+" \in CharsOf(returned[2].value)
  /\ CharsOf(expression) \cap WhiteSpace = {}

(***************************************************************************)
(* C19.  Cursor safety: the cursor is never negative and never past the    *)
(* end of the input; inside the numeric sub-scanner, and so at the i-- of  *)
(* line 136, it is at least 1; inside the identifier sub-scanner it is on  *)
(* a character; and every index a step reads is within 0..length-1.        *)
(***************************************************************************)
CursorSafe ==
  /\ i \in 0..Len(expression)
  /\ pc \in {"number", "exponent", "expDigits", "emit"} => i >= 1
  /\ pc = "emit" => i - 1 \in 0..Len(expression) - 1
  /\ pc = "identifier" => i \in 0..Len(expression) - 1
  /\ Reads(State) \subseteq 0..Len(expression) - 1

CursorSafeWitness ==
  /\ pc = "emit"
  /\ i = 1
  /\ Len(expression) = 1
  /\ Reads(State) = {}

====
